---- MODULE Spec2Model ----
(***************************************************************************)
(* The trial/block execution engine of Charlie2: BaseTestWidget            *)
(* (charlie2/tools/testwidget.py) driving a SimpleProcedure, with the      *)
(* verbal-working-memory stopping rule (charlie2/tests/                    *)
(* verbalworkingmemory.py).                                                *)
(*                                                                         *)
(* The widget's handlers call one another (_next_trial -> _step -> _block  *)
(* -> _trial ...), so each handler is an operator from widget state to     *)
(* widget state, and an action applies the whole handler to the current    *)
(* state.  charlie2/tools/procedure.py and charlie2/tools/data.py are not  *)
(* part of the sources at hand: SimpleProcedure and the TestData flags     *)
(* follow the design document (sections 3, 4.1 and 6).                     *)
(***************************************************************************)
EXTENDS Integers, Sequences, FiniteSets, TLC

\* ------------------------------------------------------------------ bounds
MaxTrials == 3      \* longest trial sequence
MaxBlocks == 2      \* most blocks in a trial sequence
LogCap == 4         \* the response log saturates here
MaxEnds == 2        \* late events are delivered until this many session ends
ScenarioTrials == 6 \* longest single-block scenario
MaxDepth == 2       \* most sleep() calls nested in one another
ResumeTrials == 10  \* trials of the resumed session
ResumeBlock == 5    \* trials in each of its blocks
ResumeDone == 4     \* trials done before the interruption, in the instance
MaxSumLen == 2      \* longest list of trials given to basic_summary
MaxTime == 2        \* largest time_elapsed of such a trial
SumBlockMax == 1    \* the block maximum duration (s) when one is configured

VARIABLES
    seq,                  \* the trial sequence make_trials() returns
    rule,                 \* which stopping_rule the test class has
    trial_max_time,       \* TRUE: a trial maximum duration is configured
    block_max_time,       \* TRUE: a block maximum duration is configured
    save_after_each_trial,
    data,                 \* TestData flags: test_resumed, test_completed
    proc,                 \* the SimpleProcedure in use
    trial_on,             \* self._trial_on
    block_silent,
    skip_countdown,
    btt,                  \* self._block_timeout_timer
    ttt,                  \* self._trial_timeout_timer
    pc,                   \* where the widget waits: init, block, countdown, trial
    ignore_close_event,   \* self.parent().ignore_close_event
    ends,                 \* calls of parent().switch_central_widget() so far
    log,                  \* outcomes of the completing responses of a session
                          \* driven only by responses
    last,                 \* what the most recent handler did
    hook_sleeps,          \* TRUE: the test's trial() plays its stimulus in sleep()
    depth,                \* trial() calls waiting in sleep(), nested in one another
    disk_fails,           \* TRUE: data.save() cannot write at present
    missing,              \* the hook the test class does not override, or "none"
    sum_args,             \* the arguments of a basic_summary() call
    sum_dic               \* what that call returned

vars == <<seq, rule, trial_max_time, block_max_time, save_after_each_trial, data,
          proc, trial_on, block_silent, skip_countdown, btt, ttt, pc,
          ignore_close_event, ends, log, last, hook_sleeps, depth, disk_fails,
          missing, sum_args, sum_dic>>

\* ------------------------------------------------------- the trial sequence
BlockTypes == {"forward", "lns_prac", "lns"}

\* make_trials of the verbal-working-memory test: lns_prac is the practice block
practices(bt) == bt = "lns_prac"

\* sequences of one length in a row: two in the span blocks, three in the
\* letter-number-sequencing blocks; the first sequence has two items
PerLength(bt) == IF bt \in {"lns", "lns_prac"} THEN 3 ELSE 2

LengthOf(bt, tn) == 2 + (tn \div PerLength(bt))

TrialSpec(b, bt, tn) ==
    [block_number |-> b, block_type |-> bt, practice |-> practices(bt),
     trial_number |-> tn, length |-> LengthOf(bt, tn)]

\* Trial sequences: blocks are contiguous and numbered from 0, trials are
\* numbered from 0 inside their block.
BlockNumberings(n) ==
    { f \in [1..n -> 0..(MaxBlocks-1)] :
        /\ f[1] = 0
        /\ \A i \in 2..n : f[i] \in {f[i-1], f[i-1] + 1} }

BlockTypings(n, bn) ==
    { g \in [0..(MaxBlocks-1) -> BlockTypes] :
        \A b \in 0..(MaxBlocks-1) : b > bn[n] => g[b] = "forward" }

TrialSequences ==
    UNION { UNION { { [i \in 1..n |->
                        TrialSpec(bn[i], ty[bn[i]],
                                  Cardinality({j \in 1..(i-1) : bn[j] = bn[i]}))] :
                      ty \in BlockTypings(n, bn) } :
                    bn \in BlockNumberings(n) } : n \in 1..MaxTrials }

\* --------------------------------------------------------- SimpleProcedure
\* A TrialRecord's outcome fields.  status: pending -> in_progress ->
\* completed | skipped | aborted; correct: unset, true or false.  The values
\* written to rt and time_elapsed are clock readings: the handler's record
\* (last.rt) names the trial they were written to.
PendingRecord == [status |-> "pending", correct |-> "unset"]
DoneRecord == [status |-> "completed", correct |-> "true"]

Final == {"completed", "skipped", "aborted"}

\* SimpleProcedure(remaining_trials): every record pending, no current trial
SimpleProcedure(n) ==
    [trials |-> [i \in 1..n |-> PendingRecord], current |-> 0,
     test_completed |-> FALSE, aborted |-> FALSE]

\* a procedure loaded from a partial save with the first k records completed
ResumedProcedure(n, k) ==
    [trials |-> [i \in 1..n |-> IF i <= k THEN DoneRecord ELSE PendingRecord],
     current |-> 0, test_completed |-> FALSE, aborted |-> FALSE]

NumTrials(p) == Len(p.trials)

PendingIndices(p) == { i \in 1..NumTrials(p) : p.trials[i].status = "pending" }

Least(S) == CHOOSE i \in S : \A j \in S : i <= j

\* next(proc) raises StopIteration
Exhausted(p) == p.aborted \/ PendingIndices(p) = {}

\* next(proc): the cursor moves to the next pending record, which becomes the
\* current trial and is in progress; with none left the test is completed
ProcNext(p) ==
    IF p.aborted THEN p
    ELSE IF PendingIndices(p) = {} THEN [p EXCEPT !.test_completed = TRUE]
    ELSE LET j == Least(PendingIndices(p))
         IN  [p EXCEPT !.current = j, !.trials[j].status = "in_progress"]

\* current_trial.first_trial_in_block, from the position in the sequence
first_trial_in_block(s, i) == i = 1 \/ s[i].block_number # s[i-1].block_number

\* proc.completed_trials: the records completed or skipped, in sequence order
CompletedIndices(p) ==
    { i \in 1..NumTrials(p) : p.trials[i].status \in {"completed", "skipped"} }

RECURSIVE SortedSeq(_)
SortedSeq(S) ==
    IF S = {} THEN <<>>
    ELSE LET m == CHOOSE i \in S : \A j \in S : j <= i
         IN  Append(SortedSeq(S \ {m}), m)

completed_trials(p) == SortedSeq(CompletedIndices(p))

\* proc.all_skipped
all_skipped(p) == \A i \in CompletedIndices(p) : p.trials[i].status = "skipped"

\* the unfinished records (pending or in progress) of the current trial's block
SkipBlockTargets(s, p) ==
    IF p.current = 0 THEN {}
    ELSE { i \in 1..NumTrials(p) :
             /\ s[i].block_number = s[p.current].block_number
             /\ p.trials[i].status \notin Final }

\* proc.skip_block()
skip_block(s, p) ==
    [p EXCEPT !.trials = [i \in 1..NumTrials(p) |->
        IF i \in SkipBlockTargets(s, p)
        THEN [p.trials[i] EXCEPT !.status = "skipped"]
        ELSE p.trials[i]]]

\* proc.skip_current_trial()
skip_current_trial(p) ==
    IF p.current = 0 \/ p.trials[p.current].status \in Final THEN p
    ELSE [p EXCEPT !.trials[p.current].status = "skipped"]

\* proc.abort()
abort(p) ==
    [p EXCEPT !.aborted = TRUE,
              !.trials = [i \in 1..NumTrials(p) |->
        IF p.trials[i].status \notin Final
        THEN [p.trials[i] EXCEPT !.status = "aborted"]
        ELSE p.trials[i]]]

\* ------------------------------------------------------- the stopping rules
\* TestWidget.block_stopping_rule of the verbal-working-memory test
block_stopping_rule_counts_practice(s, p) ==
    LET ct == completed_trials(p)
        lt == ct[Len(ct)]
        n == IF s[lt].block_type \in {"lns", "lns_prac"} THEN 3 ELSE 2
        trials == { i \in CompletedIndices(p) :
                      /\ s[i].block_number = s[lt].block_number
                      /\ s[i].length = s[lt].length }
        errs == { i \in trials : p.trials[i].correct = "false" }
    IN  IF Cardinality(trials) < n THEN FALSE
        ELSE Cardinality(errs) = n

block_stopping_rule_two_errors(s, p) ==
    LET ct == completed_trials(p)
        lt == ct[Len(ct)]
        n == 2
        trials == { i \in CompletedIndices(p) :
                      /\ s[i].block_number = s[lt].block_number
                      /\ s[i].length = s[lt].length }
        errs == { i \in trials : p.trials[i].correct = "false" }
    IN  IF s[lt].practice THEN FALSE
        ELSE IF Cardinality(trials) < n THEN FALSE
        ELSE Cardinality(errs) = n

block_stopping_rule(s, p) ==
    LET ct == completed_trials(p)
        lt == ct[Len(ct)]
        n == IF s[lt].block_type \in {"lns", "lns_prac"} THEN 3 ELSE 2
        trials == { i \in CompletedIndices(p) :
                      /\ s[i].block_number = s[lt].block_number
                      /\ s[i].length = s[lt].length }
        errs == { i \in trials : p.trials[i].correct = "false" }
    IN  IF s[lt].practice THEN FALSE
        ELSE IF Cardinality(trials) < n THEN FALSE
        ELSE Cardinality(errs) = n

\* completed_trials[-1] raises IndexError when completed_trials is empty
RuleRaises(w) == w.rule = "vwm" /\ completed_trials(w.proc) = <<>>

\* self.stopping_rule(): BaseTestWidget's default returns False; a test class
\* with rule = "vwm" overrides it with the verbal-working-memory rule
stopping_rule(w) ==
    IF w.rule = "vwm" /\ ~ RuleRaises(w)
    THEN block_stopping_rule(w.seq, w.proc) ELSE FALSE

\* ------------------------------------------------------------ the widget
\* the widget's state as one record, so that handlers compose
W ==
    [seq |-> seq, rule |-> rule, trial_max_time |-> trial_max_time,
     block_max_time |-> block_max_time,
     save_after_each_trial |-> save_after_each_trial, data |-> data,
     proc |-> proc, trial_on |-> trial_on, block_silent |-> block_silent,
     skip_countdown |-> skip_countdown, btt |-> btt, ttt |-> ttt, pc |-> pc,
     ignore_close_event |-> ignore_close_event, ends |-> ends, log |-> log,
     last |-> last, hook_sleeps |-> hook_sleeps, depth |-> depth,
     disk_fails |-> disk_fails, missing |-> missing]

\* An exception that leaves a handler (a slot called by Qt) unhandled either
\* ends the process or is printed and the event loop goes on, depending on
\* the PyQt5 version and the exception hook installed.
AfterHandler(w) == IF w.last.raised # "none" THEN {w.pc, "dead"} ELSE {w.pc}

Becomes(w) ==
    \E v \in {w} :
        /\ seq' = v.seq
        /\ rule' = v.rule
        /\ trial_max_time' = v.trial_max_time
        /\ block_max_time' = v.block_max_time
        /\ save_after_each_trial' = v.save_after_each_trial
        /\ data' = v.data
        /\ proc' = v.proc
        /\ trial_on' = v.trial_on
        /\ block_silent' = v.block_silent
        /\ skip_countdown' = v.skip_countdown
        /\ btt' = v.btt
        /\ ttt' = v.ttt
        /\ pc' \in AfterHandler(v)
        /\ ignore_close_event' = v.ignore_close_event
        /\ ends' = v.ends
        /\ log' = v.log
        /\ last' = v.last
        /\ hook_sleeps' = v.hook_sleeps
        /\ depth' = v.depth
        /\ disk_fails' = v.disk_fails
        /\ missing' = v.missing
        /\ UNCHANGED <<sum_args, sum_dic>>

\* what a handler has done so far: the event that started it, its calls of
\* data.save(), safe_close(), summarise(), get_procedure() and of the
\* procedure's next / skip_block / skip_current_trial / abort, the stopping
\* rule's verdict and the trial it judged, the records skip_block() marked
\* and the trial that was current then, the trial whose rt and time_elapsed
\* it assigned, the timers started with a slot already connected, the timers
\* safe_close() found pending, the exception that ended the handler, the
\* trial records as each data.save() wrote them, the steps of safe_close()
\* in their order, the hooks of the test class it called, and the steps it
\* took on the timers, the clocks, the procedure's next() and the test's
\* block(), countdown and trial(), in their order, and the summaries it
\* merged into data.summary
NothingYet(e) ==
    [event |-> e, saves |-> 0, closes |-> 0, summaries |-> 0, rebuilt |-> FALSE,
     procCalls |-> 0, raised |-> "none", saved |-> <<>>, closing |-> <<>>,
     needed |-> {}, steps |-> <<>>, merged |-> <<>>,
     rule |-> "none", ruleOn |-> 0, blockSkipped |-> {}, skipFrom |-> 0,
     rt |-> 0, reconnected |-> {}, stopped |-> {}]

Started(e, w) == [w EXCEPT !.last = NothingYet(e)]

\* the element of a one-element set: The({e(w) : w \in {state}}) is e(state),
\* computed from the value of state
The(S) == CHOOSE x \in S : TRUE

\* the handler takes step s
Step(w, s) == [w EXCEPT !.last.steps = Append(@, s)]

\* a QTimer: active (an expiry is pending) and the number of slots connected
\* to its timeout signal; block is the block of the trial that was current
\* when the block timer was last started (-1: never, and in the trial timer)
IdleTimer == [active |-> FALSE, conns |-> 0, block |-> -1]

\* timeout.disconnect() drops every slot (TypeError, passed over, when there
\* is none), timeout.connect() adds one, start() arms the timer anew
_start_block_timeout(w) ==
    [Step(w, "start_block_timer") EXCEPT
        !.btt = [active |-> TRUE, conns |-> 1,
                 block |-> w.seq[w.proc.current].block_number],
        !.last.reconnected = @ \cup (IF w.btt.conns > 0 THEN {"block"} ELSE {})]

_start_trial_timeout_keeps_slots(w) ==
    [Step(w, "start_trial_timer") EXCEPT
        !.ttt = [active |-> TRUE, conns |-> w.ttt.conns + 1, block |-> -1],
        !.last.reconnected = @ \cup (IF w.ttt.conns > 0 THEN {"trial"} ELSE {})]

_start_trial_timeout(w) ==
    [Step(w, "start_trial_timer") EXCEPT
        !.ttt = [active |-> TRUE, conns |-> 1, block |-> -1],
        !.last.reconnected = @ \cup (IF w.ttt.conns > 0 THEN {"trial"} ELSE {})]

_stop_block_timeout(w) == [Step(w, "stop_block_timer") EXCEPT !.btt.active = FALSE]

_stop_trial_timeout(w) == [Step(w, "stop_trial_timer") EXCEPT !.ttt.active = FALSE]

set_trial_on_leaves_timer(w, value) ==
    LET w1 == IF value = FALSE THEN w
              ELSE IF w.trial_max_time THEN _start_trial_timeout(w)
              ELSE w
    IN  [w1 EXCEPT !.trial_on = value]

\* the trial_on setter
set_trial_on(w, value) ==
    LET w1 == IF value = FALSE THEN _stop_trial_timeout(w)
              ELSE IF w.trial_max_time THEN _start_trial_timeout(w)
              ELSE w
    IN  [w1 EXCEPT !.trial_on = value]

\* an exception propagates out of the handler: nothing after it runs
Raise(w, e) == [w EXCEPT !.last.raised = e]

\* the handler calls hook h of the test class
Need(w, h) == [w EXCEPT !.last.needed = @ \cup {h}]

\* what safe_close merges into data.summary: the test's summary with the
\* entry 'resumed' added
Summary(w) == [resumed |-> w.data.test_resumed]

\* self.data.save() writing the records as they are; when it cannot write it
\* raises, and no caller in the widget catches that (the callers test
\* disk_fails before they call)
save(w) ==
    [w EXCEPT !.last.saves = @ + 1, !.last.saved = Append(@, w.proc.trials)]

safe_close_without_abort(w) ==
    LET w1 == [_stop_trial_timeout(_stop_block_timeout(w)) EXCEPT
                 !.last.closing = <<"stop_timers">>,
                 !.last.stopped = (IF w.btt.active THEN {"block"} ELSE {})
                                     \cup (IF w.ttt.active THEN {"trial"} ELSE {})]
        w3 == [save(w1) EXCEPT !.last.closing = Append(@, "save")]
    IN  [w3 EXCEPT !.ends = @ + 1,
                   !.last.closes = @ + 1,
                   !.last.closing = Append(@, "release")]

safe_close_trial_timer_left(w) ==
    LET w1 == [_stop_block_timeout(w) EXCEPT
                 !.last.closing = <<"stop_timers">>,
                 !.last.stopped = (IF w.btt.active THEN {"block"} ELSE {})
                                     \cup (IF w.ttt.active THEN {"trial"} ELSE {})]
        w2 == IF ~ w1.proc.test_completed
              THEN [w1 EXCEPT !.proc = abort(w1.proc), !.last.procCalls = @ + 1,
                              !.last.closing = Append(@, "abort")]
              ELSE [w1 EXCEPT !.last.summaries = @ + 1,
                              !.last.merged = Append(@, Summary(w)),
                              !.last.closing = Append(@, "summarise")]
        w3 == [save(w2) EXCEPT !.last.closing = Append(@, "save")]
    IN  [w3 EXCEPT !.ends = @ + 1,
                   !.last.closes = @ + 1,
                   !.last.closing = Append(@, "release")]

safe_close_saves_first(w) ==
    LET w1 == [_stop_trial_timeout(_stop_block_timeout(w)) EXCEPT
                 !.last.closing = <<"stop_timers">>,
                 !.last.stopped = (IF w.btt.active THEN {"block"} ELSE {})
                                     \cup (IF w.ttt.active THEN {"trial"} ELSE {})]
        w2 == [save(w1) EXCEPT !.last.closing = Append(@, "save")]
        w3 == IF ~ w2.proc.test_completed
              THEN [w2 EXCEPT !.proc = abort(w2.proc), !.last.procCalls = @ + 1,
                              !.last.closing = Append(@, "abort")]
              ELSE [w2 EXCEPT !.last.summaries = @ + 1,
                              !.last.merged = Append(@, Summary(w)),
                              !.last.closing = Append(@, "summarise")]
    IN  [w3 EXCEPT !.ends = @ + 1,
                   !.last.closes = @ + 1,
                   !.last.closing = Append(@, "release")]

\* safe_close that summarises whether or not the procedure is completed
safe_close_summarises_always(w) ==
    LET w1 == [_stop_trial_timeout(_stop_block_timeout(w)) EXCEPT
                 !.last.closing = <<"stop_timers">>,
                 !.last.stopped = (IF w.btt.active THEN {"block"} ELSE {})
                                     \cup (IF w.ttt.active THEN {"trial"} ELSE {})]
        w2 == [Need(w1, "summarise") EXCEPT
                              !.last.summaries = @ + 1,
                              !.last.merged = Append(@, Summary(w)),
                              !.last.closing = Append(@, "summarise")]
        w3 == [save(w2) EXCEPT !.last.closing = Append(@, "save")]
    IN  IF w1.missing = "summarise"
        THEN Raise(Need(w1, "summarise"), "AssertionError")
        ELSE IF w2.disk_fails THEN Raise(w2, "IOError")
        ELSE [w3 EXCEPT !.ends = @ + 1,
                        !.last.closes = @ + 1,
                        !.last.closing = Append(@, "release")]

\* safe_close: both timers stopped; the procedure aborted unless completed,
\* else summarise() (AssertionError unless the test overrides it); save();
\* switch_central_widget()
safe_close(w) ==
    LET w1 == [_stop_trial_timeout(_stop_block_timeout(w)) EXCEPT
                 !.last.closing = <<"stop_timers">>,
                 !.last.stopped = (IF w.btt.active THEN {"block"} ELSE {})
                                     \cup (IF w.ttt.active THEN {"trial"} ELSE {})]
        w2 == IF ~ w1.proc.test_completed
              THEN [w1 EXCEPT !.proc = abort(w1.proc), !.last.procCalls = @ + 1,
                              !.last.closing = Append(@, "abort")]
              ELSE [Need(w1, "summarise") EXCEPT
                              !.last.summaries = @ + 1,
                              !.last.merged = Append(@, Summary(w)),
                              !.last.closing = Append(@, "summarise")]
        w3 == [save(w2) EXCEPT !.last.closing = Append(@, "save")]
    IN  IF w1.proc.test_completed /\ w1.missing = "summarise"
        THEN Raise(Need(w1, "summarise"), "AssertionError")
        ELSE IF w2.disk_fails THEN Raise(w2, "IOError")
        ELSE [w3 EXCEPT !.ends = @ + 1,
                        !.last.closes = @ + 1,
                        !.last.closing = Append(@, "release")]

CurrentFirst(w) == first_trial_in_block(w.seq, w.proc.current)

\* _trial from the end of the countdown on: the block timer, trial_on and the
\* test's trial(), after which the widget awaits a response
\* (AssertionError unless the test overrides trial(); a trial() that plays
\* its stimulus waits in sleep(), which sets ignore_close_event)
_trial_rest(w) ==
    LET w1 == IF CurrentFirst(w) /\ w.block_max_time
              THEN _start_block_timeout(w) ELSE w
        w2 == [Step(Need(set_trial_on(w1, TRUE), "trial"), "trial") EXCEPT
                 !.pc = "trial"]
    IN  IF w2.missing = "trial" THEN Raise(w2, "AssertionError")
        ELSE IF w2.hook_sleeps
        THEN [w2 EXCEPT !.pc = "playing", !.depth = @ + 1,
                        !.ignore_close_event = TRUE]
        ELSE w2

\* _trial up to the countdown, whose sleep() calls hold the handler
_trial(w) ==
    LET w1 == Step(_stop_trial_timeout(w), "restart_trial_clock") IN
    IF CurrentFirst(w1) /\ ~ w1.skip_countdown
    THEN [Step(w1, "countdown") EXCEPT
            !.pc = "countdown", !.ignore_close_event = TRUE]
    ELSE _trial_rest(w1)

\* _block whose silent branch goes to _trial with skip_countdown as it was
_block_keeps_countdown(w) ==
    LET w1 == Step(_stop_block_timeout(set_trial_on(w, FALSE)),
                   "restart_block_clock")
        w2 == Step(Need(w1, "block"), "block")
    IN  IF w1.block_silent
        THEN _trial(w1)
        ELSE IF w1.missing = "block"
        THEN Raise([w2 EXCEPT !.pc = "fault"], "AssertionError")
        ELSE [w2 EXCEPT !.pc = "block", !.block_silent = FALSE]

\* _block; the test's block() shows its content with a continue button
\* (_display_continue_button clears block_silent); AssertionError, with
\* nothing shown, unless the test overrides block()
_block(w) ==
    LET w1 == Step(_stop_block_timeout(set_trial_on(w, FALSE)),
                   "restart_block_clock")
        w2 == Step(Need(w1, "block"), "block")
    IN  IF w1.block_silent
        THEN _trial([w1 EXCEPT !.skip_countdown = TRUE])
        ELSE IF w1.missing = "block"
        THEN Raise([w2 EXCEPT !.pc = "fault"], "AssertionError")
        ELSE [w2 EXCEPT !.pc = "block", !.block_silent = FALSE]

\* self.get_procedure()
get_procedure(w) == SimpleProcedure(Len(w.seq))

_step_always_rebuilds(state) ==
    The({ (
    LET w1 == [w EXCEPT !.proc = get_procedure(w), !.last.rebuilt = TRUE]
        w2 == [Step(w1, "next") EXCEPT
                 !.proc = ProcNext(w1.proc), !.last.procCalls = @ + 1]
    IN  IF w.missing = "make_trials" THEN Raise(w, "AssertionError")
        ELSE IF Exhausted(w1.proc) THEN safe_close(w2)
        ELSE IF CurrentFirst(w2) THEN _block(w2) ELSE _trial(w2)
    ) : w \in {state} })

\* _step; get_procedure() calls make_trials(), AssertionError unless the test
\* overrides it
_step(state) ==
    The({ (
    LET first == w.data.test_resumed = FALSE /\ w.data.test_completed = FALSE
        w1 == IF first
              THEN [Need(w, "make_trials") EXCEPT
                      !.proc = get_procedure(w), !.last.rebuilt = TRUE]
              ELSE w
        w2 == [Step(w1, "next") EXCEPT
                 !.proc = ProcNext(w1.proc), !.last.procCalls = @ + 1]
    IN  IF first /\ w.missing = "make_trials"
        THEN Raise(Need(w, "make_trials"), "AssertionError")
        ELSE IF Exhausted(w1.proc) THEN safe_close(w2)
        ELSE IF CurrentFirst(w2) THEN _block(w2) ELSE _trial(w2)
    ) : w \in {state} })

_next_trial_skips_after_step(state) ==
    The({ (
    LET w1 == IF w.save_after_each_trial THEN save(w) ELSE w
        fired == stopping_rule(w1)
        ct == completed_trials(w1.proc)
        w2 == [w1 EXCEPT
                 !.last.rule = IF fired THEN "fired" ELSE "passed",
                 !.last.needed = @ \cup {"stopping_rule"},
                 !.last.ruleOn = IF ct = <<>> THEN 0 ELSE ct[Len(ct)]]
        w3 == _step(w2)
    IN  IF w.save_after_each_trial /\ w.disk_fails THEN Raise(w, "IOError")
        ELSE IF RuleRaises(w1) THEN Raise(w1, "IndexError")
        ELSE IF fired
        THEN [w3 EXCEPT !.proc = skip_block(w3.seq, w3.proc),
                        !.last.procCalls = @ + 1,
                        !.last.blockSkipped =
                            @ \cup SkipBlockTargets(w3.seq, w3.proc),
                        !.last.skipFrom = w3.proc.current]
        ELSE w3
    ) : w \in {state} })

_next_trial_without_save(state) ==
    The({ (
    LET fired == stopping_rule(w)
        ct == completed_trials(w.proc)
        w2 == [w EXCEPT
                 !.last.rule = IF fired THEN "fired" ELSE "passed",
                 !.last.needed = @ \cup {"stopping_rule"},
                 !.last.ruleOn = IF ct = <<>> THEN 0 ELSE ct[Len(ct)]]
        w3 == IF fired
              THEN [w2 EXCEPT !.proc = skip_block(w2.seq, w2.proc),
                              !.last.procCalls = @ + 1,
                              !.last.blockSkipped =
                                  @ \cup SkipBlockTargets(w2.seq, w2.proc),
                              !.last.skipFrom = w2.proc.current]
              ELSE w2
    IN  IF RuleRaises(w) THEN Raise(w, "IndexError")
        ELSE _step(w3)
    ) : w \in {state} })

\* an exception of data.save() or of the stopping rule ends the handler there
_next_trial(state) ==
    The({ (
    LET w1 == IF w.save_after_each_trial THEN save(w) ELSE w
        fired == stopping_rule(w1)
        ct == completed_trials(w1.proc)
        w2 == [w1 EXCEPT
                 !.last.rule = IF fired THEN "fired" ELSE "passed",
                 !.last.needed = @ \cup {"stopping_rule"},
                 !.last.ruleOn = IF ct = <<>> THEN 0 ELSE ct[Len(ct)]]
        w3 == IF fired
              THEN [w2 EXCEPT !.proc = skip_block(w2.seq, w2.proc),
                              !.last.procCalls = @ + 1,
                              !.last.blockSkipped =
                                  @ \cup SkipBlockTargets(w2.seq, w2.proc),
                              !.last.skipFrom = w2.proc.current]
              ELSE w2
    IN  IF w.save_after_each_trial /\ w.disk_fails THEN Raise(w, "IOError")
        ELSE IF RuleRaises(w1) THEN Raise(w1, "IndexError")
        ELSE _step(w3)
    ) : w \in {state} })

_end_block_early(w) ==
    _next_trial([w EXCEPT !.proc = skip_block(w.seq, w.proc),
                          !.last.procCalls = @ + 1,
                          !.last.blockSkipped = SkipBlockTargets(w.seq, w.proc),
                          !.last.skipFrom = w.proc.current])

_end_trial_early(w) ==
    _next_trial([w EXCEPT !.proc = skip_current_trial(w.proc),
                          !.last.procCalls = @ + 1])

\* what the test's mousePressEvent_ / keyReleaseEvent_ hook does with an event
HookOutcomes == {"none", "correct", "incorrect"}

Hook(p, o) ==
    IF o = "none" THEN p
    ELSE [p EXCEPT !.trials[p.current].status = "completed",
                   !.trials[p.current].correct =
                       IF o = "correct" THEN "true" ELSE "false"]

\* the log is kept while it is on and has room
Logged(l, o) ==
    IF o = "none" \/ ~ l.on \/ Len(l.resp) >= LogCap THEN l
    ELSE [l EXCEPT !.resp = Append(@, o)]

\* mousePressEvent / keyReleaseEvent that call the hook whether or not a
\* trial is on
mousePressEvent_whenever(w, o) ==
    IF w.proc.current # 0
    THEN LET w1 == Step([w EXCEPT !.proc = Hook(w.proc, o),
                                  !.log = Logged(w.log, o)], "hook")
             w2 == [w1 EXCEPT !.last.rt = w1.proc.current]
         IN  IF w2.proc.trials[w2.proc.current].status = "completed"
             THEN _next_trial(Step(w2, "completed"))
             ELSE w2
    ELSE w

\* mousePressEvent / keyReleaseEvent
mousePressEvent(w, o) ==
    IF w.proc.current # 0 /\ w.trial_on
    THEN LET w1 == Step([w EXCEPT !.proc = Hook(w.proc, o),
                                  !.log = Logged(w.log, o)], "hook")
             w2 == [w1 EXCEPT !.last.rt = w1.proc.current]
         IN  IF w2.proc.trials[w2.proc.current].status = "completed"
             THEN _next_trial(Step(w2, "completed"))
             ELSE w2
    ELSE w

\* ------------------------------------------------------------ basic_summary
\* trials[i] of a Python list: a negative index counts from the end
At(s, i) == IF i >= 0 THEN s[i + 1] ELSE s[Len(s) + i + 1]

\* trials.index(t): the position, from 0, of the first element equal to t
IndexOf(s, t) ==
    (CHOOSE j \in 1..Len(s) : s[j] = t /\ \A h \in 1..(j - 1) : s[h] # t) - 1

\* idx = [trials.index(t) - 1 for t in trials if 'resumed_from_here' in t]
ResumeIdx(trials) ==
    LET marked == SelectSeq(trials, LAMBDA t : t.resumed_from_here)
    IN  [n \in 1..Len(marked) |-> IndexOf(trials, marked[n]) - 1]

\* sum([trials[i].time_elapsed for i in idx])
RECURSIVE SumElapsed(_, _)
SumElapsed(trials, idx) ==
    IF idx = <<>> THEN 0
    ELSE At(trials, Head(idx)).time_elapsed + SumElapsed(trials, Tail(idx))

RECURSIVE SumRt(_)
SumRt(trials) == IF trials = <<>> THEN 0 ELSE Head(trials).rt + SumRt(Tail(trials))

\* basic_summary(trials, adjust_time_taken) with a.all_skipped for
\* self.proc.all_skipped, a.resumed for self.data.test_resumed and
\* a.block_max_time for self.block_max_time (0: None).  time_taken is the
\* set of the values stored under that key (empty: the key is absent);
\* accuracy is the pair correct, responses that is divided; fault names the
\* exception that ended the call.
basic_summary(a) ==
    LET skipped == SelectSeq(a.trials, LAMBDA t : t.skipped)
        any_skipped == Len(skipped) > 0
        trials == SelectSeq(a.trials, LAMBDA t : t.block_type # "practice")
        not_skipped == SelectSeq(trials, LAMBDA t : ~ t.skipped)
        dic == [returned |-> TRUE, completed |-> TRUE,
                responses |-> Len(not_skipped), any_skipped |-> any_skipped,
                time_taken |-> {}, accuracy |-> <<>>, fault |-> "none"]
        timed ==
            IF ~ any_skipped /\ ~ a.resumed
            THEN IF trials = <<>> THEN [dic EXCEPT !.fault = "IndexError"]
                 ELSE [dic EXCEPT !.time_taken = {At(trials, -1).time_elapsed}]
            ELSE IF ~ any_skipped /\ a.resumed
            THEN IF trials = <<>> THEN [dic EXCEPT !.fault = "IndexError"]
                 ELSE [dic EXCEPT !.time_taken =
                          {At(trials, -1).time_elapsed
                             + SumElapsed(trials, ResumeIdx(trials))}]
            ELSE IF any_skipped /\ ~ a.adjust_time_taken
            THEN dic
            ELSE IF not_skipped = <<>>
                 THEN [dic EXCEPT !.fault = "ZeroDivisionError"]
                 ELSE IF a.block_max_time = 0
                 THEN [dic EXCEPT !.fault = "TypeError"]
                 ELSE [dic EXCEPT !.time_taken =
                          {a.block_max_time * 1000
                             + (SumRt(not_skipped) * Len(skipped))
                                   \div Len(not_skipped)}]
    IN  IF a.all_skipped
        THEN [returned |-> TRUE, completed |-> FALSE, fault |-> "none"]
        ELSE IF timed.fault # "none" THEN timed
        ELSE IF trials = <<>> THEN [timed EXCEPT !.fault = "IndexError"]
        ELSE IF Len(not_skipped) = 0
        THEN [timed EXCEPT !.fault = "ZeroDivisionError"]
        ELSE [timed EXCEPT !.accuracy =
                 <<Len(SelectSeq(not_skipped, LAMBDA t : t.correct)),
                   Len(not_skipped)>>]

\* no basic_summary() call is under study
NoSummary == sum_args = [called |-> FALSE] /\ sum_dic = [returned |-> FALSE]

\* ------------------------------------------------------------------- Init
\* The state after construction (__init__): nothing shown, no timer running.
\* A resumed session starts from a procedure loaded with its first k records
\* completed; a new one builds its procedure in the first _step.
Init ==
    /\ seq \in TrialSequences
    /\ rule \in {"default", "vwm"}
    /\ trial_max_time \in BOOLEAN
    /\ block_max_time \in BOOLEAN
    /\ save_after_each_trial \in BOOLEAN
    /\ block_silent \in BOOLEAN
    /\ skip_countdown = FALSE
    /\ data \in { [test_resumed |-> r, test_completed |-> FALSE] : r \in BOOLEAN }
    /\ proc \in IF data.test_resumed
                THEN { ResumedProcedure(Len(seq), k) : k \in 0..(Len(seq) - 1) }
                ELSE { SimpleProcedure(Len(seq)) }
    /\ trial_on = FALSE
    /\ btt = IdleTimer
    /\ ttt = IdleTimer
    /\ pc = "init"
    /\ ignore_close_event = FALSE
    /\ ends = 0
    /\ log = [resp |-> <<>>, on |-> FALSE]
    /\ last = NothingYet("none")
    /\ hook_sleeps = FALSE
    /\ depth = 0
    /\ disk_fails = FALSE
    /\ missing = "none"
    /\ NoSummary

\* ---------------------------------------------------------------- actions
\* An event reaches the widget while its session runs (late = FALSE) or, in
\* the specification with late events, after the session has ended.
Live(late) == IF late THEN ends >= 1 /\ ends < MaxEnds ELSE ends = 0

\* the process is alive, and a handler that starts a trial() may still wait
\* in a further sleep()
Room == pc # "dead" /\ depth < MaxDepth

\* an event other than a response ends the log
Other(w) == [w EXCEPT !.log.on = FALSE]

\* begin(), called once by the parent widget
Begin ==
    /\ pc = "init"
    /\ ends = 0
    /\ Becomes(_step(Started("begin", W)))

\* a click on the continue button the block content shows
Continue(late) ==
    /\ Live(late)
    /\ pc = "block"
    /\ Room
    /\ Becomes(_trial(Started("continue", W)))

\* the countdown's last sleep() returns and _trial goes on
CountdownDone ==
    /\ pc = "countdown"
    /\ Becomes(_trial_rest([Started("countdown", W) EXCEPT
                               !.ignore_close_event = FALSE]))

\* a mouse or key event; while trial() plays its stimulus the response
\* buttons are disabled, so no event completes the trial then
InputEvent(late) ==
    /\ Live(late)
    /\ pc \in {"block", "countdown", "trial", "playing", "fault"}
    /\ Room
    /\ \E o \in (IF pc = "playing" THEN {"none"} ELSE HookOutcomes) :
          Becomes(mousePressEvent(Started("input", W), o))

\* the trial timer expires (a single shot)
TrialTimeout ==
    /\ ends = 0
    /\ Room
    /\ ttt.active
    /\ Becomes(_end_trial_early(
           Other([Started("trial_timeout", W) EXCEPT !.ttt.active = FALSE])))

\* the block timer expires (a single shot)
BlockTimeout ==
    /\ ends = 0
    /\ Room
    /\ btt.active
    /\ Becomes(_end_block_early(
           Other([Started("block_timeout", W) EXCEPT !.btt.active = FALSE])))

\* the parent's closeEvent, ignored while ignore_close_event is set
Close(late) ==
    /\ Live(late)
    /\ pc \notin {"init", "dead"}
    /\ ~ ignore_close_event
    /\ Becomes(safe_close(Other(Started("close", W))))

\* an expiry delivered although the session has ended: the slot is still
\* connected to the timer's timeout signal
LateTrialTimeout ==
    /\ Live(TRUE)
    /\ Room
    /\ ttt.conns > 0
    /\ Becomes(_end_trial_early(Other(Started("late_trial_timeout", W))))

LateBlockTimeout ==
    /\ Live(TRUE)
    /\ Room
    /\ btt.conns > 0
    /\ Becomes(_end_block_early(Other(Started("late_block_timeout", W))))

Next ==
    \/ Begin
    \/ Continue(FALSE)
    \/ CountdownDone
    \/ InputEvent(FALSE)
    \/ TrialTimeout
    \/ BlockTimeout
    \/ Close(FALSE)

Spec == Init /\ [][Next]_vars

\* the same widget when events still arrive after the session has ended
NextLate ==
    \/ Next
    \/ Continue(TRUE)
    \/ InputEvent(TRUE)
    \/ Close(TRUE)
    \/ LateTrialTimeout
    \/ LateBlockTimeout

SpecLate == Init /\ [][NextLate]_vars

\* what construction leaves whatever the test and its configuration
Constructed ==
    /\ skip_countdown = FALSE
    /\ trial_on = FALSE
    /\ btt = IdleTimer
    /\ ttt = IdleTimer
    /\ pc = "init"
    /\ ignore_close_event = FALSE
    /\ ends = 0
    /\ depth = 0
    /\ log = [resp |-> <<>>, on |-> FALSE]
    /\ last = NothingYet("none")
    /\ NoSummary

\* a session that is new, or resumed after any number of its trials
Sessions ==
    /\ data \in { [test_resumed |-> r, test_completed |-> FALSE] : r \in BOOLEAN }
    /\ proc \in IF data.test_resumed
                THEN { ResumedProcedure(Len(seq), k) : k \in 0..(Len(seq) - 1) }
                ELSE { SimpleProcedure(Len(seq)) }

\* ---- a test whose trial() plays its stimulus in sleep(), as the verbal-
\* working-memory test does
InitSleep ==
    /\ seq \in TrialSequences
    /\ rule = "vwm"
    /\ trial_max_time \in BOOLEAN
    /\ block_max_time \in BOOLEAN
    /\ save_after_each_trial = FALSE
    /\ block_silent \in BOOLEAN
    /\ Sessions
    /\ hook_sleeps = TRUE
    /\ disk_fails = FALSE
    /\ missing = "none"
    /\ Constructed

\* a sleep() of trial() returns (ignore_close_event is cleared); either the
\* stimulus has finished and trial() returns, or the loop sleeps again.  A
\* sleep() cannot return while a countdown's sleep() nested in it is running.
SleepDone ==
    /\ depth > 0
    /\ pc \notin {"countdown", "dead"}
    /\ \E again \in BOOLEAN :
          /\ ignore_close_event' = again
          /\ depth' = IF again THEN depth ELSE depth - 1
          /\ pc' = IF ~ again /\ pc = "playing" THEN "trial" ELSE pc
    /\ last' = NothingYet("sleep_done")
    /\ log' = Other(W).log
    /\ UNCHANGED <<seq, rule, trial_max_time, block_max_time,
                   save_after_each_trial, data, proc, trial_on, block_silent,
                   skip_countdown, btt, ttt, ends, hook_sleeps, disk_fails,
                   missing, sum_args, sum_dic>>

NextSleep ==
    \/ Next
    \/ SleepDone

SpecSleep == InitSleep /\ [][NextSleep]_vars

\* ---- a test class that leaves one hook to BaseTestWidget; the base class's
\* stopping_rule is the default rule
Hooks == {"make_trials", "block", "trial", "summarise", "stopping_rule"}

InitHooks ==
    /\ seq \in TrialSequences
    /\ missing \in Hooks
    /\ rule = IF missing = "stopping_rule" THEN "default" ELSE "vwm"
    /\ trial_max_time \in BOOLEAN
    /\ block_max_time \in BOOLEAN
    /\ save_after_each_trial = FALSE
    /\ block_silent \in BOOLEAN
    /\ Sessions
    /\ hook_sleeps = FALSE
    /\ disk_fails = FALSE
    /\ Constructed

SpecHooks == InitHooks /\ [][Next]_vars

\* ---- the participant answers the trial that awaits a response
Answer ==
    /\ ends = 0
    /\ pc = "trial"
    /\ \E o \in {"correct", "incorrect"} :
          Becomes(mousePressEvent(Started("input", W), o))

\* the widget under fairness, in sessions of forward blocks: the parent calls
\* begin(), a countdown's sleep()
\* returns, the participant continues every block content shown and answers
\* every trial that awaits a response unless a timer expiry ends it first
InitLive ==
    /\ seq \in { q \in TrialSequences :
                   \A i \in 1..Len(q) : q[i].block_type = "forward" }
    /\ rule \in {"default", "vwm"}
    /\ trial_max_time \in BOOLEAN
    /\ block_max_time \in BOOLEAN
    /\ save_after_each_trial = FALSE
    /\ block_silent \in BOOLEAN
    /\ Sessions
    /\ hook_sleeps = FALSE
    /\ disk_fails = FALSE
    /\ missing = "none"
    /\ Constructed

SpecLive ==
    /\ InitLive
    /\ [][Next]_vars
    /\ WF_vars(Begin)
    /\ WF_vars(CountdownDone)
    /\ WF_vars(Continue(FALSE))
    /\ WF_vars(Answer)

\* ---- a session whose persistence may fail
InitFail ==
    /\ seq \in TrialSequences
    /\ rule = "vwm"
    /\ trial_max_time \in BOOLEAN
    /\ block_max_time \in BOOLEAN
    /\ save_after_each_trial = TRUE
    /\ block_silent \in BOOLEAN
    /\ Sessions
    /\ hook_sleeps = FALSE
    /\ disk_fails \in BOOLEAN
    /\ missing = "none"
    /\ Constructed

\* the disk fills up or is writable again
DiskFlips ==
    /\ ends = 0
    /\ pc \notin {"init", "dead"}
    /\ disk_fails' = ~ disk_fails
    /\ last' = NothingYet("disk")
    /\ UNCHANGED <<seq, rule, trial_max_time, block_max_time,
                   save_after_each_trial, data, proc, trial_on, block_silent,
                   skip_countdown, btt, ttt, pc, ignore_close_event, ends, log,
                   hook_sleeps, depth, missing, sum_args, sum_dic>>

NextFail ==
    \/ Next
    \/ DiskFlips

SpecFail == InitFail /\ [][NextFail]_vars

\* ---- a session resumed after k of ResumeTrials trials, driven by responses
ResumeSequence ==
    [i \in 1..ResumeTrials |->
        TrialSpec((i - 1) \div ResumeBlock, "forward", (i - 1) % ResumeBlock)]

InitResume ==
    /\ seq = ResumeSequence
    /\ rule = "default"
    /\ trial_max_time = FALSE
    /\ block_max_time = FALSE
    /\ save_after_each_trial = FALSE
    /\ block_silent \in BOOLEAN
    /\ data = [test_resumed |-> TRUE, test_completed |-> FALSE]
    /\ proc \in { ResumedProcedure(ResumeTrials, k) : k \in 0..(ResumeTrials - 1) }
    /\ hook_sleeps = FALSE
    /\ disk_fails = FALSE
    /\ missing = "none"
    /\ Constructed

\* ---- calls of basic_summary() on lists of completed trials
SumTrialFields ==
    [time_elapsed : 1..MaxTime, resumed_from_here : BOOLEAN,
     skipped : BOOLEAN, block_type : {"forward", "practice"}]

\* the trials of a list differ in their trial_number; a skipped trial has no
\* response
SumLists ==
    UNION { { [i \in 1..n |->
                 [trial_number |-> i - 1, block_type |-> f[i].block_type,
                  skipped |-> f[i].skipped, time_elapsed |-> f[i].time_elapsed,
                  rt |-> IF f[i].skipped THEN 0 ELSE f[i].time_elapsed,
                  correct |-> ~ f[i].skipped /\ f[i].time_elapsed = 1,
                  resumed_from_here |-> f[i].resumed_from_here]] :
              f \in [1..n -> SumTrialFields] } : n \in 0..MaxSumLen }

\* the procedure's all_skipped is true only if every trial of the list, which
\* is among its completed trials, is skipped; only a resumed session has
\* resume markers; block_max_time is read only when the adjustment is asked
\* for
SumArgs ==
    { a \in [called : {TRUE}, trials : SumLists, adjust_time_taken : BOOLEAN,
             resumed : BOOLEAN, all_skipped : BOOLEAN,
             block_max_time : {0, SumBlockMax}] :
        /\ a.all_skipped => \A i \in 1..Len(a.trials) : a.trials[i].skipped
        /\ ~ a.resumed =>
              \A i \in 1..Len(a.trials) : ~ a.trials[i].resumed_from_here
        /\ ~ a.adjust_time_taken => a.block_max_time = 0 }

InitSummary ==
    /\ seq = <<TrialSpec(0, "forward", 0)>>
    /\ rule = "default"
    /\ trial_max_time = FALSE
    /\ block_max_time = FALSE
    /\ save_after_each_trial = FALSE
    /\ block_silent = FALSE
    /\ data = [test_resumed |-> FALSE, test_completed |-> FALSE]
    /\ proc = SimpleProcedure(1)
    /\ hook_sleeps = FALSE
    /\ disk_fails = FALSE
    /\ missing = "none"
    /\ skip_countdown = FALSE
    /\ trial_on = FALSE
    /\ btt = IdleTimer
    /\ ttt = IdleTimer
    /\ pc = "init"
    /\ ignore_close_event = FALSE
    /\ ends = 0
    /\ depth = 0
    /\ log = [resp |-> <<>>, on |-> FALSE]
    /\ last = NothingYet("none")
    /\ sum_args \in SumArgs
    /\ sum_dic = [returned |-> FALSE]

\* the call of basic_summary
Summarise ==
    /\ ~ sum_dic.returned
    /\ sum_dic' = basic_summary(sum_args)
    /\ UNCHANGED <<seq, rule, trial_max_time, block_max_time,
                   save_after_each_trial, data, proc, trial_on, block_silent,
                   skip_countdown, btt, ttt, pc, ignore_close_event, ends, log,
                   last, hook_sleeps, depth, disk_fails, missing, sum_args>>

NextSummary == Summarise

SpecSummary == InitSummary /\ [][NextSummary]_vars

\* ---- the verbal-working-memory rule applied to a history: the first k
\* records of a trial sequence completed (correct or incorrect) or skipped,
\* the others pending
Histories(q) ==
    { [trials |-> t, current |-> 0, test_completed |-> FALSE, aborted |-> FALSE] :
        t \in { f \in [1..Len(q) ->
                         {PendingRecord, DoneRecord,
                          [status |-> "completed", correct |-> "false"],
                          [status |-> "skipped", correct |-> "unset"]}] :
                  \A i \in 2..Len(q) :
                      f[i - 1] = PendingRecord => f[i] = PendingRecord } }

InitRule ==
    /\ seq \in TrialSequences
    /\ rule = "vwm"
    /\ trial_max_time = FALSE
    /\ block_max_time = FALSE
    /\ save_after_each_trial = FALSE
    /\ block_silent = FALSE
    /\ data = [test_resumed |-> TRUE, test_completed |-> FALSE]
    /\ proc \in Histories(seq)
    /\ hook_sleeps = FALSE
    /\ disk_fails = FALSE
    /\ missing = "none"
    /\ Constructed

\* a call of the rule: what it returned ("fired": True, "passed": False) or
\* the exception it raised, and the records after the call
ApplyRule ==
    /\ last' = IF RuleRaises(W)
               THEN Raise(Started("rule", W), "IndexError").last
               ELSE [NothingYet("rule") EXCEPT
                       !.rule = IF stopping_rule(W) THEN "fired" ELSE "passed"]
    /\ UNCHANGED <<seq, rule, trial_max_time, block_max_time,
                   save_after_each_trial, data, proc, trial_on, block_silent,
                   skip_countdown, btt, ttt, pc, ignore_close_event, ends, log,
                   hook_sleeps, depth, disk_fails, missing, sum_args, sum_dic>>

NextRule == ApplyRule

SpecRule == InitRule /\ [][NextRule]_vars

\* a single-block session driven only by responses: n forward trials whose
\* second and third sequences have one length, the verbal-working-memory
\* rule, no timer, the log on
ScenarioSequences ==
    { [i \in 1..n |->
         [block_number |-> 0, block_type |-> "forward", practice |-> FALSE,
          trial_number |-> i - 1, length |-> 2 + (i \div 2)]] :
      n \in 4..ScenarioTrials }

InitResp ==
    /\ seq \in ScenarioSequences
    /\ rule = "vwm"
    /\ trial_max_time = FALSE
    /\ block_max_time = FALSE
    /\ save_after_each_trial \in BOOLEAN
    /\ block_silent \in BOOLEAN
    /\ skip_countdown = FALSE
    /\ data \in { [test_resumed |-> r, test_completed |-> FALSE] : r \in BOOLEAN }
    /\ proc = IF data.test_resumed THEN ResumedProcedure(Len(seq), 0)
              ELSE SimpleProcedure(Len(seq))
    /\ trial_on = FALSE
    /\ btt = IdleTimer
    /\ ttt = IdleTimer
    /\ pc = "init"
    /\ ignore_close_event = FALSE
    /\ ends = 0
    /\ log = [resp |-> <<>>, on |-> TRUE]
    /\ last = NothingYet("none")
    /\ hook_sleeps = FALSE
    /\ depth = 0
    /\ disk_fails = FALSE
    /\ missing = "none"
    /\ NoSummary

NextResp ==
    \/ Begin
    \/ Continue(FALSE)
    \/ CountdownDone
    \/ InputEvent(FALSE)

SpecResp == InitResp /\ [][NextResp]_vars

SpecResume == InitResume /\ [][NextResp]_vars

\* ------------------------------------------------------------- the claims
Ended == ends > 0

StatusOf(i) == proc.trials[i].status

Indices == 1..Len(seq)

WithStatus(st) == { i \in Indices : StatusOf(i) = st }

BlockOf(i) == seq[i].block_number

\* C1 as stated: once the session has ended every record is completed,
\* skipped or aborted, and completed_trials holds as many records as the
\* trial sequence
C1_AllInCompletedTrials ==
    Ended => /\ \A i \in Indices : StatusOf(i) \in Final
             /\ Len(completed_trials(proc)) = Len(seq)

\* C1, amended: once the session has ended every record is completed, skipped
\* or aborted; completed_trials holds as many records as the trial sequence
\* when the procedure was exhausted, and all but the aborted ones when the
\* session was closed
C1_NoneLeftPending ==
    Ended => /\ \A i \in Indices : StatusOf(i) \in Final
             /\ Len(completed_trials(proc)) + Cardinality(WithStatus("aborted"))
                    = Len(seq)
             /\ proc.test_completed => Len(completed_trials(proc)) = Len(seq)
             /\ ~ proc.test_completed => WithStatus("aborted") # {}

C1_Witness ==
    /\ Ended
    /\ proc.test_completed
    /\ Len(seq) >= 3
    /\ WithStatus("skipped") # {}
    /\ WithStatus("completed") # {}

C3_StepAfterExhaustedIsNoOp ==
    (proc.test_completed /\ last.event # "close") => ends <= 1

\* C4: whenever the most recently completed trial is practice-flagged the
\* stopping rule returns false, and no evaluation in _next_trial that judged
\* a practice trial fired
C4_NoStopOnPractice ==
    /\ LET ct == completed_trials(proc)
       IN  (ct # <<>> /\ seq[ct[Len(ct)]].practice) => ~ stopping_rule(W)
    /\ last.rule = "fired" => ~ seq[last.ruleOn].practice

C4_Witness ==
    /\ rule = "vwm"
    /\ last.rule = "passed"
    /\ seq[last.ruleOn].practice
    /\ Cardinality({ i \in CompletedIndices(proc) :
                       /\ BlockOf(i) = BlockOf(last.ruleOn)
                       /\ seq[i].length = seq[last.ruleOn].length
                       /\ proc.trials[i].correct = "false" }) = 3

\* C5, the instance: once the responses correct, incorrect, incorrect have
\* been given in the single-block scenario, the session has ended with
\* exactly 3 trials completed and all the others skipped
C5_ThreeCompletedRestSkipped ==
    (log.on /\ log.resp = <<"correct", "incorrect", "incorrect">>) =>
        /\ Ended
        /\ WithStatus("completed") = 1..3
        /\ WithStatus("skipped") = 4..Len(seq)

NextPending == Least(PendingIndices(proc))

\* C6: a trial-timer expiry marks the current trial, and no other, skipped
\* and in the same step starts the next trial of the sequence, or ends the
\* session when none remains
C6_TrialTimeoutSkipsAndAdvances ==
    [][ last'.event = "trial_timeout" =>
          /\ proc'.trials[proc.current].status = "skipped"
          /\ \A i \in Indices \ {proc.current} :
                 proc'.trials[i].status = "skipped" => StatusOf(i) = "skipped"
          /\ IF PendingIndices(proc) # {}
             THEN /\ proc'.current = NextPending
                  /\ proc'.trials[NextPending].status = "in_progress"
                  /\ ends' = ends
             ELSE ends' = ends + 1 ]_vars

\* C7: a block-timer expiry marks every unfinished trial of the current block
\* skipped and the next trial started is the first of the following block
\* (the session ends if there is none); no trial of the expired block is
\* presented again
C7_BlockTimeoutSkipsBlock ==
    [][ last'.event = "block_timeout" =>
          LET b == BlockOf(proc.current)
              later == { i \in PendingIndices(proc) : BlockOf(i) # b }
          IN  /\ \A i \in Indices :
                    (BlockOf(i) = b /\ StatusOf(i) \notin Final)
                        => proc'.trials[i].status = "skipped"
              /\ \A i \in Indices :
                    BlockOf(i) = b => proc'.trials[i].status # "in_progress"
              /\ IF later # {}
                 THEN /\ proc'.current = Least(later)
                      /\ first_trial_in_block(seq, proc'.current)
                      /\ ends' = ends
                 ELSE ends' = ends + 1 ]_vars

Timers == {btt, ttt}

C10_LateExpiryIsNoOp ==
    [][ last'.event \in {"late_trial_timeout", "late_block_timeout"} =>
          /\ proc' = proc
          /\ last'.procCalls = 0
          /\ last'.saves = 0
          /\ last'.closes = 0
          /\ ends' = ends ]_vars
\* a handler is in flight: a trial() or a countdown waits in sleep()
InFlight == depth > 0 \/ pc = "countdown"

\* C11: while a handler is in flight, no response, trial-timer expiry or
\* block-timer expiry starts a second handler that calls the procedure,
\* _next_trial or _step
C11_NoNestedAdvance ==
    [][ (InFlight
         /\ last'.event \in {"input", "trial_timeout", "block_timeout"})
           => (last'.procCalls = 0 /\ last'.rule = "none") ]_vars

\* C12: whenever the session has ended, safe_close did its steps in this
\* order: both timers stopped, the procedure aborted (if not completed) or
\* summarised (if completed), the data saved, control released; no timer is
\* pending, no record is pending or in progress, and the records written by
\* the last save are the records as they are at the release
C12_ExitPathOrder ==
    Ended =>
        /\ last.closes = 1
        /\ last.closing =
              <<"stop_timers",
                IF proc.test_completed THEN "summarise" ELSE "abort",
                "save", "release">>
        /\ ~ btt.active /\ ~ ttt.active
        /\ \A i \in Indices : StatusOf(i) \in Final
        /\ last.saved # <<>>
        /\ last.saved[Len(last.saved)] = proc.trials

C12_Witness ==
    /\ Ended
    /\ last.event = "close"
    /\ last.stopped = {"block", "trial"}
    /\ WithStatus("completed") # {}
    /\ Cardinality(WithStatus("aborted")) >= 2

\* the handler ended a trial: a response that completed it or a timer expiry
TrialEnded ==
    /\ last'.event \in {"input", "trial_timeout", "block_timeout"}
    /\ last'.procCalls > 0

\* C13: a handler that ends a trial saves exactly once before it steps when
\* save_after_each_trial is set (the records written show the ended trial
\* completed or skipped and no trial in progress) and not at all otherwise;
\* a handler that ends the session saves once more, whatever the setting,
\* and writes the records as they are at the end
C13_SavedAfterEachTrial ==
    [][ /\ (TrialEnded /\ save_after_each_trial) =>
              /\ Len(last'.saved) = 1 + last'.closes
              /\ last'.saved[1][proc.current].status \in {"completed", "skipped"}
              /\ \A i \in Indices : last'.saved[1][i].status # "in_progress"
        /\ (TrialEnded /\ ~ save_after_each_trial) =>
              Len(last'.saved) = last'.closes
        /\ last'.closes > 0 =>
              /\ last'.saved # <<>>
              /\ last'.saved[Len(last'.saved)] = proc'.trials ]_vars

C13_Witness ==
    /\ save_after_each_trial
    /\ data.test_resumed
    /\ last.event = "trial_timeout"
    /\ Len(last.saved) = 1
    /\ proc.current > 1
    /\ trial_on

\* C14: when a response makes the stopping rule fire and save_after_each_trial
\* is set, the records the incremental save wrote show every record that
\* skip_block() marked as skipped
C14_SaveShowsSkippedBlock ==
    [][ (last'.event = "input" /\ last'.rule = "fired" /\ save_after_each_trial)
          => /\ last'.saved # <<>>
             /\ \A i \in last'.blockSkipped :
                    last'.saved[1][i].status = "skipped" ]_vars

\* C15: the cursor never moves back, no trial that was completed, skipped or
\* in progress is started again, completed_trials is a prefix of the trial
\* sequence, and _step builds no procedure once one is in use
C15_CursorNeverRewinds ==
    [][ /\ proc'.current >= proc.current
        /\ \A i \in Indices :
              (StatusOf(i) # "pending" /\ proc'.trials[i].status = "in_progress")
                  => (StatusOf(i) = "in_progress" /\ proc'.current = proc.current)
        /\ CompletedIndices(proc') = 1..Cardinality(CompletedIndices(proc'))
        /\ (last'.rebuilt => proc.current = 0) ]_vars

\* C16: a record that is completed or skipped is never changed again and its
\* rt and time_elapsed are never assigned again, whatever event arrives,
\* also after the session has ended
C16_FinalRecordsFrozen ==
    [][ \A i \in Indices :
          StatusOf(i) \in {"completed", "skipped"}
              => (proc'.trials[i] = proc.trials[i] /\ last'.rt # i) ]_vars

\* C17: in a resumed session _step builds no procedure, begin() presents the
\* first trial after the records already completed or skipped, and no record
\* that is completed, skipped or aborted (so none of the first k) is changed
\* or presented or has its rt assigned again
C17_ResumeKeepsProcedure ==
    [][ /\ data.test_resumed
        /\ ~ last'.rebuilt
        /\ (last'.event = "begin" =>
               proc'.current = Cardinality(CompletedIndices(proc)) + 1)
        /\ \A i \in Indices :
               StatusOf(i) \in Final =>
                   (proc'.trials[i] = proc.trials[i] /\ last'.rt # i) ]_vars

C17_Witness ==
    /\ last.event = "begin"
    /\ Len(seq) = ResumeTrials
    /\ proc.current = ResumeDone + 1
    /\ \A i \in 1..ResumeDone : StatusOf(i) = "completed"
    /\ StatusOf(ResumeDone + 1) = "in_progress"

\* the list basic_summary analyses: the trials that are not of a block of type
\* "practice"
Analysed == SelectSeq(sum_args.trials, LAMBDA t : t.block_type # "practice")

\* the elapsed time recorded before the interruptions: time_elapsed of the
\* trial just before each resume marker (nothing before a marker on the first
\* trial)
RECURSIVE PriorElapsed(_, _)
PriorElapsed(trials, p) ==
    IF p = 0 THEN 0
    ELSE PriorElapsed(trials, p - 1)
           + (IF trials[p].resumed_from_here /\ p > 1
              THEN trials[p - 1].time_elapsed ELSE 0)

NoneSkipped == \A i \in 1..Len(sum_args.trials) : ~ sum_args.trials[i].skipped

\* C18: in a resumed session with no skipped trial, basic_summary returns
\* time_taken = the time_elapsed of the trial before each resume marker
\* + the time_elapsed of the last trial, wherever the markers are
C18_ResumedTimeTaken ==
    (sum_dic.returned /\ sum_args.resumed /\ NoneSkipped /\ Analysed # <<>>)
        => /\ sum_dic.fault = "none"
           /\ sum_dic.time_taken =
                 { PriorElapsed(Analysed, Len(Analysed))
                     + Analysed[Len(Analysed)].time_elapsed }

\* C19: when data.save() fails in a handler that ended a trial, the record of
\* that trial stays as the handler set it, the stopping rule is still
\* evaluated and the next trial is started or the session ended
C19_SaveFailureTolerated ==
    [][ (last'.raised = "IOError"
         /\ last'.event \in {"input", "trial_timeout", "block_timeout"})
          => /\ proc'.trials[proc.current].status \in {"completed", "skipped"}
             /\ last'.rule # "none"
             /\ \/ ends' = ends + 1
                \/ proc'.trials[proc'.current].status = "in_progress" ]_vars

\* C20: a handler that calls the hook the test class does not supply ends
\* with the AssertionError of that hook, whichever of the five hooks it is
C20_MissingHookIsFatal ==
    [][ (missing \in last'.needed) => (last'.raised = "AssertionError") ]_vars

Has(s, x) == \E i \in 1..Len(s) : s[i] = x

\* the steps a handler took after next(proc), up to the block content or the
\* trial, whichever it reached first
AfterNext(s) ==
    LET k == CHOOSE i \in 1..Len(s) : s[i] = "next"
    IN  SubSeq(s, k + 1, Len(s))

UpTo(s, X) ==
    IF \E i \in 1..Len(s) : s[i] \in X
    THEN SubSeq(s, 1, (CHOOSE i \in 1..Len(s) :
                         s[i] \in X /\ \A j \in 1..(i - 1) : s[j] \notin X) - 1)
    ELSE s

\* the handler obtained a trial from the procedure
ObtainedTrial ==
    /\ Has(last'.steps, "next")
    /\ last'.closes = 0
    /\ last'.raised = "none"

\* C21: a handler that obtains the first trial of a block stops the trial
\* timer, restarts the block clock and, with a block maximum, starts the block
\* timer, before it shows the block content (and then starts no trial) or,
\* in a silent block, before it starts the trial at once; a handler that
\* obtains a later trial of a block starts the trial with no block content
\* and no restart of the block clock
C21_BlockStartThenTrial ==
    [][ ObtainedTrial =>
          LET a == AfterNext(last'.steps)
              blockStart == UpTo(a, {"block", "trial"})
          IN  IF first_trial_in_block(seq, proc'.current)
              THEN /\ Has(blockStart, "stop_trial_timer")
                   /\ Has(blockStart, "restart_block_clock")
                   /\ block_max_time => Has(blockStart, "start_block_timer")
                   /\ IF block_silent
                      THEN ~ Has(a, "block") /\ Has(a, "trial") /\ trial_on'
                      ELSE Has(a, "block") /\ ~ Has(a, "trial") /\ ~ trial_on'
              ELSE /\ ~ Has(a, "restart_block_clock")
                   /\ ~ Has(a, "block")
                   /\ Has(a, "trial") /\ trial_on' ]_vars

\* C22: once the procedure has been aborted, no response, continue click or
\* timer expiry makes the widget call next(proc) or start a trial
C22_AbortIsTerminal ==
    [][ (proc.aborted
         /\ last'.event \in {"input", "continue", "trial_timeout",
                             "block_timeout", "late_trial_timeout",
                             "late_block_timeout"})
           => /\ ~ Has(last'.steps, "next")
              /\ ~ Has(last'.steps, "trial")
              /\ ~ Has(last'.steps, "countdown") ]_vars

\* the widget waits in a sleep(): a countdown, or a trial() playing its
\* stimulus
InPause == ends = 0 /\ pc \in {"countdown", "playing"}

\* C23: whenever the widget waits in a sleep(), a close request is processed:
\* the closeEvent is not ignored and safe_close can run
C23_CloseDuringPause ==
    InPause => (~ ignore_close_event /\ ENABLED Close(FALSE))

\* C24: under fairness every session reaches its end, where safe_close has
\* saved the data and released control
C24_SessionEnds ==
    <>(Ended /\ last.closes = 1 /\ last.saved # <<>>)

\* the completed trial the rule judges, the completed trials of its block
\* with its sequence length, and the incorrect ones among them
Judged == LET ct == completed_trials(proc) IN ct[Len(ct)]

SameLength ==
    { i \in CompletedIndices(proc) :
        BlockOf(i) = BlockOf(Judged) /\ seq[i].length = seq[Judged].length }

Incorrect == { i \in SameLength : proc.trials[i].correct = "false" }

Required == IF seq[Judged].block_type \in {"lns", "lns_prac"} THEN 3 ELSE 2

SomeSkipped == ~ NoneSkipped

\* C26: basic_summary returns a summary; when the procedure's trials were
\* all skipped it is just completed = False; otherwise time_taken is absent
\* exactly when some trial of the list was skipped and no adjustment was
\* asked for
C26_TimeTakenPresence ==
    sum_dic.returned =>
        IF sum_args.all_skipped
        THEN sum_dic = [returned |-> TRUE, completed |-> FALSE, fault |-> "none"]
        ELSE /\ sum_dic.fault = "none"
             /\ sum_dic.completed
             /\ (sum_dic.time_taken = {})
                   <=> (SomeSkipped /\ ~ sum_args.adjust_time_taken)

\* C27: a mouse or key event assigns rt and time_elapsed only to a trial in
\* progress and only when it ends that trial (the handler goes on to
\* _next_trial), so they are assigned at most once in a trial
C27_RtSetOnce ==
    [][ last'.rt # 0 =>
          /\ StatusOf(last'.rt) = "in_progress"
          /\ last'.rule # "none" ]_vars

\* a trial awaits a response
AwaitingResponse ==
    /\ ends = 0
    /\ pc = "trial"
    /\ trial_on
    /\ proc.current # 0
    /\ StatusOf(proc.current) = "in_progress"

\* C28: with a block maximum, whenever a trial awaits a response the block
\* timer is pending and was started in that trial's block; with no block
\* maximum the block timer is never pending
C28_BlockTimerCoversBlock ==
    /\ (block_max_time /\ AwaitingResponse) =>
           (btt.active /\ btt.block = BlockOf(proc.current))
    /\ ~ block_max_time => ~ btt.active

\* in the steps s every b comes after an a
Preceded(s, a, b) ==
    \A j \in 1..Len(s) : s[j] = b => \E i \in 1..(j - 1) : s[i] = a

\* C29: the trial timer is pending only with a trial maximum configured and
\* trial_on true, and never while block content or a countdown is shown; a
\* handler that sets trial_on false leaves it stopped; a handler that starts
\* it has stopped it before (or found it stopped)
C29_TrialTimerOnlyInTrial ==
    /\ [](/\ ttt.active => (trial_max_time /\ trial_on)
          /\ pc \in {"block", "countdown"} => ~ ttt.active)
    /\ [][ /\ (trial_on /\ ~ trial_on') => ~ ttt'.active
           /\ Has(last'.steps, "start_trial_timer") =>
                 \/ Preceded(last'.steps, "stop_trial_timer", "start_trial_timer")
                 \/ ~ ttt.active ]_vars

C29_Witness ==
    /\ last.event = "input"
    /\ "trial" \in last.reconnected
    /\ Has(last.steps, "start_trial_timer")
    /\ ttt.active
    /\ trial_on
    /\ proc.current > 1

\* the handler of this step started a trial (_trial ran from its first line)
TrialStarted == Has(last'.steps, "restart_trial_clock")

\* C30: a handler that starts a trial runs the countdown if and only if the
\* trial is the first of its block and skip_countdown is false, so never on a
\* later trial of a block; a handler that runs a silent block leaves
\* skip_countdown set; once set, skip_countdown stays set
C30_CountdownFirstUnlessSkipped ==
    [][ /\ TrialStarted =>
              (Has(last'.steps, "countdown") <=>
                  (/\ first_trial_in_block(seq', proc'.current)
                   /\ ~ skip_countdown'))
        /\ (TrialStarted /\ ~ first_trial_in_block(seq', proc'.current)) =>
              pc' # "countdown"
        /\ (block_silent /\ Has(last'.steps, "restart_block_clock")) =>
              skip_countdown'
        /\ skip_countdown => skip_countdown' ]_vars

\* a response ended a block and the next, silent, block went straight to its
\* first trial with no countdown
C30_Witness ==
    /\ last.event = "input"
    /\ Has(last.steps, "restart_block_clock")
    /\ Has(last.steps, "restart_trial_clock")
    /\ ~ Has(last.steps, "countdown")
    /\ first_trial_in_block(seq, proc.current)
    /\ proc.current > 1
    /\ skip_countdown
    /\ pc = "trial"

\* a non-silent block's first trial is preceded by the countdown
C30_Counted ==
    /\ last.event = "continue"
    /\ Has(last.steps, "countdown")
    /\ pc = "countdown"
    /\ ~ skip_countdown
    /\ proc.current > 1

\* the handler of this step called the test's response hook
ActedOn == Has(last'.steps, "hook")

\* C31: a mouse or key event is acted on (the hook is called) only with a
\* current trial and trial_on true; block content and the countdown are shown
\* with trial_on false, and an event arriving then changes nothing of the
\* widget (records, cursor, timers, what is shown), so nothing is left to
\* replay; an event acted on goes on to _next_trial if and only if the trial
\* is completed after the hook
C31_InputGated ==
    /\ [](pc \in {"block", "countdown"} => ~ trial_on)
    /\ [][ last'.event = "input" =>
             /\ ActedOn <=> (proc.current # 0 /\ trial_on)
             /\ ~ ActedOn =>
                   /\ last' = NothingYet("input")
                   /\ UNCHANGED <<seq, rule, trial_max_time, block_max_time,
                                  save_after_each_trial, data, proc, trial_on,
                                  block_silent, skip_countdown, btt, ttt, pc,
                                  ignore_close_event, ends, log, hook_sleeps,
                                  depth, disk_fails, missing>>
             /\ ActedOn =>
                   (Has(last'.steps, "completed") <=> last'.rule # "none")
             /\ ActedOn =>
                   (Has(last'.steps, "completed") <=> Has(last'.steps, "next"))
        ]_vars

\* an event was ignored while block content or a countdown was shown
C31_Witness ==
    /\ last = NothingYet("input")
    /\ pc \in {"block", "countdown"}
    /\ proc.current # 0
    /\ ~ trial_on

\* an event acted on completed its trial and the engine advanced
C31_Advanced ==
    /\ last.event = "input"
    /\ Has(last.steps, "completed")
    /\ Has(last.steps, "next")
    /\ last.rt # 0

\* the handler of this step ran safe_close up to the release of control
Closed == last'.closes > 0

\* the handler of this step found the procedure exhausted: it was not a close
\* request, and next() raised StopIteration in _step on a procedure that had
\* not been aborted
RanOut ==
    /\ Closed
    /\ last'.event # "close"
    /\ Has(last'.steps, "next")
    /\ ~ proc.aborted

\* C32: a handler that ends the session computes the summary exactly once
\* and merges it with 'resumed' equal to test_resumed if and only if the
\* procedure reports test_completed; otherwise it aborts the procedure and
\* computes no summary; either step comes before the save, and the save
\* before the release of control; a session that ran to exhaustion (every
\* record completed or skipped) takes the summary branch
C32_SummaryIffCompleted ==
    [][ Closed =>
          /\ proc'.test_completed <=> Has(last'.closing, "summarise")
          /\ Has(last'.closing, "summarise") <=>
                (/\ last'.summaries = 1
                 /\ last'.merged = <<[resumed |-> data.test_resumed]>>)
          /\ ~ proc'.test_completed =>
                /\ Has(last'.closing, "abort")
                /\ proc'.aborted
                /\ last'.summaries = 0
                /\ last'.merged = <<>>
          /\ ~ (Has(last'.closing, "summarise") /\ Has(last'.closing, "abort"))
          /\ Len(last'.closing) = 4
          /\ last'.closing[2] \in {"summarise", "abort"}
          /\ last'.closing[3] = "save"
          /\ last'.closing[4] = "release"
          /\ last'.saves >= 1
          /\ RanOut =>
                /\ Has(last'.closing, "summarise")
                /\ ~ proc'.aborted
                /\ \A i \in 1..Len(proc'.trials) :
                      proc'.trials[i].status \in {"completed", "skipped"}
      ]_vars

\* a resumed session ran to exhaustion on a response and was summarised
C32_Witness ==
    /\ Ended
    /\ last.event = "input"
    /\ last.closing = <<"stop_timers", "summarise", "save", "release">>
    /\ last.merged = <<[resumed |-> TRUE]>>
    /\ proc.test_completed
    /\ data.test_resumed

\* a close request mid-session aborted the procedure with no summary
C32_Aborted ==
    /\ Ended
    /\ last.event = "close"
    /\ last.closing = <<"stop_timers", "abort", "save", "release">>
    /\ last.summaries = 0
    /\ proc.aborted

\* C33: ignore_close_event is true in every state in which a sleep() has
\* started and not yet returned (a countdown's, or one of trial(), also one
\* inside which a timer expiry started a further sleep()), and false in every
\* other state
C33_SleepHoldsClose == ignore_close_event <=> InFlight

\* the trials of the list that are neither practice nor skipped
Responded == SelectSeq(Analysed, LAMBDA t : ~ t.skipped)

\* C34: whenever all_skipped is false, basic_summary returns a summary and
\* raises nothing: the list of non-practice trials it indexes is not empty,
\* the number of responses it divides by is at least 1, and the summary has
\* completed = True and responses = the number of non-practice, non-skipped
\* trials
C34_SummaryNeverFaults ==
    (sum_dic.returned /\ ~ sum_args.all_skipped) =>
        /\ sum_dic.fault = "none"
        /\ Analysed # <<>>
        /\ Len(Responded) >= 1
        /\ sum_dic.completed
        /\ sum_dic.responses = Len(Responded)
====
